---- MODULE Spec2Model ----
(***************************************************************************)
(* Model of the e-commerce chat backend: the transcript store              *)
(* (SQLChatRepository over the chat_memory table) and the chat             *)
(* orchestrator (ChatService.process_message, reached through the POST     *)
(* /chat endpoint).                                                        *)
(*                                                                         *)
(* Python strings are sequences of one-character strings, so that          *)
(* str.strip() is computed and not assumed.  Optional[int] is a set with   *)
(* at most one element ({} is None).                                       *)
(*                                                                         *)
(* datetime.utcnow() is the variable clock; every ChatMessage built        *)
(* without a timestamp reads it, and two readings are never equal (each    *)
(* construction is followed by a database commit before the next one).     *)
(***************************************************************************)
EXTENDS Integers, Sequences, FiniteSets, TLC

\* ------------------------------------------------------------------ bounds
\* POST /chat requests received in a run
MaxRequests == 2
\* DELETE /chat/history requests served in a run
MaxPurges == 1
\* direct save_message calls in a run of the store alone
MaxSaves == 4
\* largest count and limit passed to the store's reads
MaxCount == 2
\* ProductService calls started in a run
MaxProductCalls == 3
\* largest price (in cents) and stock a Product is constructed with; the
\* smallest are their negatives
MaxPrice == 2
MaxStock == 2
\* largest quantity given to reduce_stock and increase_stock (the smallest is
\* its negative), and the number of such calls in a run
MaxQuantity == 3
MaxStockCalls == 3
\* largest number of parts in a response of the provider
MaxParts == 2
\* number of search calls in a run
MaxSearchCalls == 2
\* number of application startups and of create_product calls between them
MaxStartups == 2
MaxCreates == 1
\* number of rows of the conversation stored before the service starts
EarlierRows == 6
\* longest message list given to a ChatContext
MaxContextLen == 3
\* largest max_messages given to a ChatContext besides the default
MaxWindow == 4

\* ----------------------------------------------------------------- strings
Whitespace == {" ", "\t", "\n"}

RECURSIVE lstrip(_)
lstrip(v) ==
    IF v # <<>> /\ Head(v) \in Whitespace THEN lstrip(Tail(v)) ELSE v

RECURSIVE rstrip(_)
rstrip(v) ==
    IF v # <<>> /\ v[Len(v)] \in Whitespace
    THEN rstrip(SubSeq(v, 1, Len(v) - 1))
    ELSE v

strip(v) == rstrip(lstrip(v))

\* Python truthiness of "not v or not v.strip()"
blank(v) == v = <<>> \/ strip(v) = <<>>

\* str.lower() on the ASCII letters
Uppercase ==
    <<"A", "B", "C", "D", "E", "F", "G", "H", "I", "J", "K", "L", "M",
      "N", "O", "P", "Q", "R", "S", "T", "U", "V", "W", "X", "Y", "Z">>
Lowercase ==
    <<"a", "b", "c", "d", "e", "f", "g", "h", "i", "j", "k", "l", "m",
      "n", "o", "p", "q", "r", "s", "t", "u", "v", "w", "x", "y", "z">>

lower_char(c) ==
    IF \E i \in DOMAIN Uppercase : Uppercase[i] = c
    THEN Lowercase[CHOOSE i \in DOMAIN Uppercase : Uppercase[i] = c]
    ELSE c

lower(v) == [i \in DOMAIN v |-> lower_char(v[i])]

S1 == <<"s", "1">>
S2 == <<"s", "2">>
Sessions == {S1, S2}
SessionInputs == {<<" ", "\t">>, S1, S2}
MessageInputs == {<<>>, <<"h", "i", " ">>}
Replies == {<<"o", "k">>, <<" ">>}
\* texts a generator can return that have no visible character
BlankReplies == {<<>>, <<" ">>}
Roles == {"user", "assistant"}

\* --------------------------------------------------------------- variables
VARIABLES
    chat_memory,   \* the chat_memory table: a set of rows
    products,      \* the products table: a set of rows
    clock,         \* the last reading of datetime.utcnow()
    ret,           \* what the last direct store call returned
    pc,            \* per request: where process_message stands
    req,           \* per request: the body of the POST /chat request
    user_message,  \* per request: the ChatMessage of the user turn, once built
    tasks,         \* per request: the two to_thread reads and their results
    reply,         \* per request: assistant_text, once the generator returned
    outcome,       \* per request: what the endpoint answered
    received,      \* number of POST /chat requests received (bounds the run)
    purges,        \* number of DELETE /chat/history requests served (bounds the run)
    \* history variables, read by the properties only
    appended,      \* per session: the rows committed since the last purge, in commit order
    events,        \* per request: what it did to the stores and the generator, in order
    calls,         \* per request: number of calls made to each collaborator
    before,        \* per request: the session's transcript when process_message was entered
    disturbed,     \* per request: another operation changed its session's transcript
                   \* while process_message was running
    in_session,    \* the worker threads that are executing a query, each with the
                   \* Session object it executes it on
    product_calls, \* per caller of ProductService: the call it is in, its arguments,
                   \* its local existing_product, what it gave to save (saved), what
                   \* save or delete returned to it (result) and what the call raised
    product,       \* the Product object a caller constructed and holds ({}: none)
    startups,      \* number of times the application has started
    seedings       \* history: number of times load_initial_data inserted the seed

storeVars == <<chat_memory, products, clock, appended>>
reqVars == <<pc, req, user_message, tasks, reply, outcome, received, purges>>
histVars == <<events, calls, before, disturbed>>
threadVars == <<in_session, product_calls>>
bootVars == <<product, startups, seedings>>
vars == <<chat_memory, products, clock, ret, pc, req, user_message, tasks, reply,
          outcome, received, purges, appended, events, calls, before, disturbed,
          in_session, product_calls, product, startups, seedings>>

\* The requests in flight: a slot is taken by a POST /chat request from its
\* arrival to its answer and keeps the finished request until the next arrives.
Requests == {1, 2}

\* callers of ProductService, each on a thread and a Session of its own
Callers == {1, 2}

\* ---------------------------------------------------------------- entities
\* variant: the message text is not validated
ChatMessage_post_init_any_message(session_id, role, message) ==
    /\ ~blank(session_id)
    /\ role \in {"user", "assistant"}

\* ChatMessage.__post_init__: TRUE when construction succeeds
ChatMessage_post_init(session_id, role, message) ==
    /\ ~blank(session_id)
    /\ role \in {"user", "assistant"}
    /\ ~blank(message)

\* ChatMessage(id=None, ...) with the default timestamp
ChatMessage(session_id, role, message, now) ==
    [id |-> {}, session_id |-> session_id, role |-> role,
     message |-> message, timestamp |-> now]

\* variant: the validator tests "not v" only
not_empty_no_strip(v) == v # <<>>

\* ChatMessageRequestDTO.not_empty: TRUE when the validator accepts the field
not_empty(v) == ~blank(v)

\* ChatMessageRequestDTO(session_id, message): both fields pass the validator
ChatMessageRequestDTO_valid(session_id, message) ==
    not_empty(message) /\ not_empty(session_id)

\* ------------------------------------------------------- transcript store
Max(S) == CHOOSE x \in S : \A y \in S : y <= x

\* variant: the next id is taken from the number of rows
next_id_from_count(table) == Cardinality(table) + 1

\* id = Column(Integer, primary_key=True, autoincrement=True) on SQLite:
\* the next rowid is one more than the largest rowid in the table
next_id(table) ==
    IF table = {} THEN 1 ELSE Max({m.id : m \in table}) + 1

\* SQLChatRepository._entity_to_model, the INSERT of db.add + db.commit
\* and _model_to_entity of the refreshed row
entity_to_model(table, message) ==
    [id |-> IF message.id = {} THEN next_id(table) ELSE Max(message.id),
     session_id |-> message.session_id, role |-> message.role,
     message |-> message.message, timestamp |-> message.timestamp]

\* How one save_message call can end: it returns; db.commit() raises and
\* nothing is stored; db.commit() succeeds and db.refresh() raises.
SaveOutcomes == {"ok", "commit_error", "refresh_error"}

\* variant: the row is added to the session and never committed
save_message_no_commit(table, message, how) == table

\* SQLChatRepository.save_message: the table after the call
save_message(table, message, how) ==
    IF how = "commit_error" THEN table
    ELSE table \cup {entity_to_model(table, message)}

\* .filter(ChatMemoryModel.session_id == session_id)
filter_session(table, session_id) == {m \in table : m.session_id = session_id}

\* .order_by(ChatMemoryModel.timestamp.asc())
RECURSIVE order_by_timestamp_asc(_)
order_by_timestamp_asc(rows) ==
    IF rows = {} THEN <<>>
    ELSE LET first == CHOOSE m \in rows : \A n \in rows : m.timestamp <= n.timestamp
         IN  <<first>> \o order_by_timestamp_asc(rows \ {first})

\* .order_by(ChatMemoryModel.timestamp.desc())
RECURSIVE order_by_timestamp_desc(_)
order_by_timestamp_desc(rows) ==
    IF rows = {} THEN <<>>
    ELSE LET first == CHOOSE m \in rows : \A n \in rows : m.timestamp >= n.timestamp
         IN  <<first>> \o order_by_timestamp_desc(rows \ {first})

\* .limit(n)
limit_query(q, n) == SubSeq(q, 1, IF n < Len(q) THEN n ELSE Len(q))

\* variant: the selected window is left newest first
no_reverse(q) == q

\* list.reverse()
reverse(q) == [i \in 1 .. Len(q) |-> q[Len(q) + 1 - i]]

\* SQLChatRepository.get_session_history(session_id, limit); "if limit:" is
\* false for None and for 0
get_session_history(table, session_id, limit) ==
    LET query == order_by_timestamp_asc(filter_session(table, session_id))
    IN  IF limit # {} /\ limit # {0}
        THEN limit_query(query, Max(limit))
        ELSE query

\* variant: the earliest rows are taken instead of the latest
get_recent_messages_earliest(table, session_id, count) ==
    limit_query(order_by_timestamp_asc(filter_session(table, session_id)), count)

\* SQLChatRepository.get_recent_messages(session_id, count)
get_recent_messages(table, session_id, count) ==
    reverse(limit_query(order_by_timestamp_desc(filter_session(table, session_id)),
                        count))

\* variant: the delete statement has lost its session filter
delete_session_history_unfiltered(table, session_id) ==
    [table |-> {}, num_deleted |-> Cardinality(table)]

\* SQLChatRepository.delete_session_history(session_id): rows left, rows deleted
delete_session_history(table, session_id) ==
    [table |-> table \ filter_session(table, session_id),
     num_deleted |-> Cardinality(filter_session(table, session_id))]

\* ------------------------------------------------------------ initial state
\* load_initial_data: the seed catalog as the empty database receives it (price
\* in cents, colour names in ASCII, the description column left out); a name is
\* a sequence of characters, as every string that is stripped or lower-cased
\* somewhere
initial_products ==
    { [id |-> 1, name |-> <<"A", "i", "r", " ", "Z", "o", "o", "m", " ", "P", "e",
                    "g", "a", "s", "u", "s", " ", "4", "0">>,
       brand |-> <<"N", "i", "k", "e">>,
       category |-> <<"R", "u", "n", "n", "i", "n", "g">>, size |-> "42", color |-> "Negro",
       price |-> 12999, stock |-> 15],
      [id |-> 2, name |-> <<"U", "l", "t", "r", "a", "b", "o", "o", "s", "t", " ",
                    "L", "i", "g", "h", "t">>,
       brand |-> <<"A", "d", "i", "d", "a", "s">>,
       category |-> <<"R", "u", "n", "n", "i", "n", "g">>, size |-> "41", color |-> "Blanco",
       price |-> 18995, stock |-> 10],
      [id |-> 3, name |-> <<"S", "u", "e", "d", "e", " ", "C", "l", "a", "s", "s",
                    "i", "c", " ", "X", "X", "I">>,
       brand |-> <<"P", "u", "m", "a">>,
       category |-> <<"C", "a", "s", "u", "a", "l">>, size |-> "43", color |-> "Rojo",
       price |-> 7500, stock |-> 25],
      [id |-> 4, name |-> <<"G", "E", "L", "-", "K", "a", "y", "a", "n", "o", " ",
                    "3", "0">>,
       brand |-> <<"A", "S", "I", "C", "S">>,
       category |-> <<"R", "u", "n", "n", "i", "n", "g">>, size |-> "42.5", color |-> "Azul",
       price |-> 16000, stock |-> 8],
      [id |-> 5, name |-> <<"C", "h", "u", "c", "k", " ", "T", "a", "y", "l", "o",
                    "r", " ", "A", "l", "l", " ", "S", "t", "a", "r">>,
       brand |-> <<"C", "o", "n", "v", "e", "r", "s", "e">>,
       category |-> <<"C", "a", "s", "u", "a", "l">>, size |-> "40", color |-> "Negro",
       price |-> 6000, stock |-> 30],
      [id |-> 6, name |-> <<"C", "l", "u", "b", " ", "C", " ", "8", "5">>,
       brand |-> <<"R", "e", "e", "b", "o", "k">>,
       category |-> <<"C", "a", "s", "u", "a", "l">>, size |-> "44", color |-> "Blanco",
       price |-> 8500, stock |-> 18],
      [id |-> 7, name |-> <<"C", "l", "i", "f", "t", "o", "n", " ", "9">>,
       brand |-> <<"H", "o", "k", "a">>,
       category |-> <<"R", "u", "n", "n", "i", "n", "g">>, size |-> "43", color |-> "Naranja",
       price |-> 14500, stock |-> 12],
      [id |-> 8, name |-> <<"5", "7", "4", " ", "C", "o", "r", "e">>,
       brand |-> <<"N", "e", "w", " ", "B", "a", "l", "a", "n", "c", "e">>,
       category |-> <<"C", "a", "s", "u", "a", "l">>, size |-> "41.5", color |-> "Gris",
       price |-> 9000, stock |-> 22],
      [id |-> 9, name |-> <<"O", "x", "f", "o", "r", "d", " ", "I", "m", "p", "e",
                    "r", "m", "e", "a", "b", "l", "e">>,
       brand |-> <<"T", "i", "m", "b", "e", "r", "l", "a", "n", "d">>,
       category |-> <<"F", "o", "r", "m", "a", "l">>, size |-> "44", color |-> "Marron",
       price |-> 13000, stock |-> 7],
      [id |-> 10, name |-> <<"V", "a", "p", "o", "r", "f", "l", "y", " ", "3">>,
       brand |-> <<"N", "i", "k", "e">>,
       category |-> <<"R", "u", "n", "n", "i", "n", "g">>, size |-> "42", color |-> "Verde",
       price |-> 25000, stock |-> 5] }

NoReturn == [op |-> "none", session_id |-> <<>>, arg |-> {}, result |-> <<>>, num |-> 0]
NoReq == [session_id |-> <<>>, message |-> <<>>]
NoTask == [state |-> "idle", products |-> {}, history |-> <<>>]
NoOutcome == [kind |-> "none", stage |-> "none", response |-> {}]
NoCall == [pc |-> "idle", op |-> "none", product_id |-> 0, dto |-> {},
           existing_product |-> {}, saved |-> {}, result |-> {}, raised |-> "none",
           started |-> 0]
NoCalls == [save_message |-> 0, get_all |-> 0, get_recent_messages |-> 0,
            generate_response |-> 0]

Init ==
    /\ chat_memory = {}
    /\ products = initial_products
    /\ clock = 0
    /\ ret = NoReturn
    /\ pc = [r \in Requests |-> "idle"]
    /\ req = [r \in Requests |-> NoReq]
    /\ user_message = [r \in Requests |-> {}]
    /\ tasks = [r \in Requests |-> [products_task |-> NoTask, history_task |-> NoTask]]
    /\ reply = [r \in Requests |-> <<>>]
    /\ outcome = [r \in Requests |-> NoOutcome]
    /\ received = 0
    /\ purges = 0
    /\ appended = [s \in Sessions |-> <<>>]
    /\ events = [r \in Requests |-> <<>>]
    /\ calls = [r \in Requests |-> NoCalls]
    /\ before = [r \in Requests |-> <<>>]
    /\ disturbed = [r \in Requests |-> FALSE]
    /\ in_session = {}
    /\ product_calls = [c \in Callers |-> NoCall]
    /\ product = {}
    /\ startups = 1
    /\ seedings = 1

\* ------------------------------------------------- history-variable updates
\* rows committed to session s, in commit order
appended_after_save(s, message, how) ==
    IF how = "commit_error" \/ s \notin Sessions THEN appended
    ELSE [appended EXCEPT ![s] = Append(@, entity_to_model(chat_memory, message))]

\* request r (0: no request) changed the transcript of session s
disturbed_by(r, s) ==
    [q \in Requests |->
        disturbed[q] \/ (q # r /\ pc[q] \in {"gather", "awaiting"}
                          /\ req[q].session_id = s)]

\* ---------------------------------------------- direct transcript store calls
\* save_message called with a ChatMessage the caller has just built
StoreSave(session_id, role, message, how) ==
    /\ clock < MaxSaves
    /\ ChatMessage_post_init(session_id, role, message)
    /\ LET m == ChatMessage(session_id, role, message, clock + 1)
       IN  /\ chat_memory' = save_message(chat_memory, m, how)
           /\ appended' = appended_after_save(session_id, m, how)
           /\ disturbed' = IF how = "commit_error" THEN disturbed
                           ELSE disturbed_by(0, session_id)
           /\ ret' = [op |-> "save_message", session_id |-> session_id, arg |-> {},
                      result |-> IF how = "ok"
                                 THEN <<entity_to_model(chat_memory, m)>> ELSE <<>>,
                      num |-> 0]
    /\ clock' = clock + 1
    /\ UNCHANGED <<products, reqVars, events, calls, before>>
    /\ UNCHANGED <<threadVars, bootVars>>

StoreHistory(session_id, limit) ==
    /\ ret' = [op |-> "get_session_history", session_id |-> session_id, arg |-> limit,
               result |-> get_session_history(chat_memory, session_id, limit),
               num |-> 0]
    /\ UNCHANGED <<storeVars, reqVars, histVars>>
    /\ UNCHANGED <<threadVars, bootVars>>

StoreRecent(session_id, count) ==
    /\ ret' = [op |-> "get_recent_messages", session_id |-> session_id,
               arg |-> {count},
               result |-> get_recent_messages(chat_memory, session_id, count),
               num |-> 0]
    /\ UNCHANGED <<storeVars, reqVars, histVars>>
    /\ UNCHANGED <<threadVars, bootVars>>

\* the effect of a purge of the session on the table and on the history variables
purge(session_id) ==
    /\ chat_memory' = delete_session_history(chat_memory, session_id).table
    /\ appended' = [appended EXCEPT ![session_id] = <<>>]
    /\ disturbed' = disturbed_by(0, session_id)
    /\ UNCHANGED <<products, clock, pc, req, user_message, tasks, reply, outcome, received,
                   events, calls, before>>

\* delete_session_history called directly
StorePurge(session_id) ==
    /\ purge(session_id)
    /\ UNCHANGED <<purges>>
    /\ ret' = [op |-> "delete_session_history", session_id |-> session_id, arg |-> {},
               result |-> <<>>,
               num |-> delete_session_history(chat_memory, session_id).num_deleted]
    /\ UNCHANGED <<threadVars, bootVars>>

\* ChatService.clear_session_history behind DELETE /chat/history/{session_id};
\* the number of deleted rows goes into the response body
clear_session_history(session_id) ==
    /\ purges < MaxPurges
    /\ purges' = purges + 1
    /\ purge(session_id)
    /\ UNCHANGED ret
    /\ UNCHANGED <<threadVars, bootVars>>

Limits == {{}} \cup {{n} : n \in 0 .. MaxCount}

NextStore ==
    \/ \E s \in Sessions, role \in Roles, how \in SaveOutcomes :
          StoreSave(s, role, <<"h", "i", " ">>, how)
    \/ \E s \in Sessions, limit \in Limits : StoreHistory(s, limit)
    \/ \E s \in Sessions, count \in 1 .. MaxCount : StoreRecent(s, count)
    \/ \E s \in Sessions : StorePurge(s)

SpecStore == Init /\ [][NextStore]_vars

\* ------------------------------------------------------- chat orchestrator
\* One action is one turn of the event loop (the code between two awaits) or
\* one worker thread's store call.

\* variant: store errors are let through unwrapped
raised_error_per_stage(stage) ==
    IF stage = "generate" THEN "ChatServiceError" ELSE "SQLAlchemyError"

\* "except Exception as e: raise ChatServiceError(...)": the kind of error
\* process_message raises for a failure at the given stage
raised_error(stage) == "ChatServiceError"

\* process_message ends by raising
fail(r, stage) ==
    /\ pc' = [pc EXCEPT ![r] = "done"]
    /\ outcome' = [outcome EXCEPT ![r] =
                     [kind |-> raised_error(stage), stage |-> stage, response |-> {}]]

log(r, happened) == events' = [events EXCEPT ![r] = @ \o happened]

called(r, what) == calls' = [calls EXCEPT ![r][what] = @ + 1]

\* a slot is free when it holds no request or a finished one whose worker
\* threads have ended
free(r) ==
    /\ pc[r] \in {"idle", "done"}
    /\ tasks[r].products_task.state # "running"
    /\ tasks[r].history_task.state # "running"

NoTasks == [products_task |-> NoTask, history_task |-> NoTask]

\* variant: one request per session at a time; a request that finds its
\* session busy is turned away before it saves anything
process_chat_message_session_lock(r, session_id, message, how) ==
    /\ received < MaxRequests
    /\ free(r)
    /\ \A q \in Requests : q < r => ~free(q)
    /\ how = "ok"
    /\ received' = received + 1
    /\ req' = [req EXCEPT ![r] = [session_id |-> session_id, message |-> message]]
    /\ reply' = [reply EXCEPT ![r] = <<>>]
    /\ calls' = [calls EXCEPT ![r] = NoCalls]
    /\ before' = [before EXCEPT ![r] = <<>>]
    /\ LET m == ChatMessage(session_id, "user", message, clock + 1)
           busy == \E q \in Requests \ {r} :
                      pc[q] \in {"gather", "awaiting"} /\ req[q].session_id = session_id
       IN  IF ~ChatMessageRequestDTO_valid(session_id, message) \/ busy
           THEN /\ pc' = [pc EXCEPT ![r] = "done"]
                /\ outcome' = [outcome EXCEPT ![r] =
                                 [kind |-> IF busy THEN "SessionBusy" ELSE "ValidationError",
                                  stage |-> "validation", response |-> {}]]
                /\ user_message' = [user_message EXCEPT ![r] = {}]
                /\ tasks' = [tasks EXCEPT ![r] = NoTasks]
                /\ events' = [events EXCEPT ![r] = <<>>]
                /\ UNCHANGED <<storeVars, disturbed>>
           ELSE /\ clock' = clock + 1
                /\ chat_memory' = save_message(chat_memory, m, how)
                /\ appended' = appended_after_save(session_id, m, how)
                /\ events' = [events EXCEPT ![r] = <<"user_append">>]
                /\ user_message' = [user_message EXCEPT ![r] = {m}]
                /\ pc' = [pc EXCEPT ![r] = "gather"]
                /\ tasks' = [tasks EXCEPT ![r] =
                               [products_task |-> [NoTask EXCEPT !.state = "running"],
                                history_task |-> [NoTask EXCEPT !.state = "running"]]]
                /\ outcome' = [outcome EXCEPT ![r] = NoOutcome]
                /\ UNCHANGED <<products, disturbed>>
    /\ UNCHANGED <<ret, purges>>
    /\ UNCHANGED <<threadVars, bootVars>>

\* variant: the generator is awaited first, the user turn is not saved before it
process_chat_message_generate_first(r, session_id, message, how) ==
    /\ received < MaxRequests
    /\ free(r)
    /\ ChatMessageRequestDTO_valid(session_id, message)
    /\ received' = received + 1
    /\ req' = [req EXCEPT ![r] = [session_id |-> session_id, message |-> message]]
    /\ reply' = [reply EXCEPT ![r] = <<>>]
    /\ pc' = [pc EXCEPT ![r] = "awaiting"]
    /\ outcome' = [outcome EXCEPT ![r] = NoOutcome]
    /\ user_message' = [user_message EXCEPT ![r] =
                          {ChatMessage(session_id, "user", message, clock + 1)}]
    /\ tasks' = [tasks EXCEPT ![r] = NoTasks]
    /\ events' = [events EXCEPT ![r] = <<"generate_invoked">>]
    /\ calls' = [calls EXCEPT ![r] = [NoCalls EXCEPT !.generate_response = 1]]
    /\ before' = [before EXCEPT ![r] = appended[session_id]]
    /\ disturbed' = [disturbed EXCEPT ![r] = FALSE]
    /\ clock' = clock + 1
    /\ UNCHANGED <<chat_memory, products, appended, ret, purges>>
    /\ UNCHANGED <<threadVars, bootVars>>

\* POST /chat. FastAPI builds the ChatMessageRequestDTO: a body the validator
\* refuses never reaches process_message.  Otherwise process_message runs up
\* to its first await: it builds the user ChatMessage, saves it and starts the
\* two to_thread reads.
process_chat_message(r, session_id, message, how) ==
    /\ received < MaxRequests
    /\ free(r)
    /\ \A q \in Requests : q < r => ~free(q)
    /\ received' = received + 1
    /\ req' = [req EXCEPT ![r] = [session_id |-> session_id, message |-> message]]
    /\ reply' = [reply EXCEPT ![r] = <<>>]
    /\ LET m == ChatMessage(session_id, "user", message, clock + 1)
       IN  IF ~ChatMessageRequestDTO_valid(session_id, message)
           THEN /\ pc' = [pc EXCEPT ![r] = "done"]
                /\ outcome' = [outcome EXCEPT ![r] =
                                 [kind |-> "ValidationError", stage |-> "validation",
                                  response |-> {}]]
                /\ user_message' = [user_message EXCEPT ![r] = {}]
                /\ tasks' = [tasks EXCEPT ![r] = NoTasks]
                /\ events' = [events EXCEPT ![r] = <<>>]
                /\ calls' = [calls EXCEPT ![r] = NoCalls]
                /\ before' = [before EXCEPT ![r] = <<>>]
                /\ disturbed' = [disturbed EXCEPT ![r] = FALSE]
                /\ UNCHANGED storeVars
           ELSE IF ~ChatMessage_post_init(session_id, "user", message)
           THEN /\ fail(r, "save_user")
                /\ user_message' = [user_message EXCEPT ![r] = {}]
                /\ tasks' = [tasks EXCEPT ![r] = NoTasks]
                /\ events' = [events EXCEPT ![r] = <<>>]
                /\ calls' = [calls EXCEPT ![r] = NoCalls]
                /\ before' = [before EXCEPT ![r] = <<>>]
                /\ disturbed' = [disturbed EXCEPT ![r] = FALSE]
                /\ UNCHANGED storeVars
           ELSE /\ clock' = clock + 1
                /\ chat_memory' = save_message(chat_memory, m, how)
                /\ appended' = appended_after_save(session_id, m, how)
                /\ disturbed' = [(IF how = "commit_error" THEN disturbed
                                  ELSE disturbed_by(r, session_id))
                                 EXCEPT ![r] = FALSE]
                /\ calls' = [calls EXCEPT ![r] = [NoCalls EXCEPT !.save_message = 1]]
                /\ before' = [before EXCEPT ![r] = appended[session_id]]
                /\ events' = [events EXCEPT ![r] =
                                IF how = "commit_error" THEN <<>> ELSE <<"user_append">>]
                /\ user_message' = [user_message EXCEPT ![r] = {m}]
                /\ IF how = "ok"
                   THEN /\ pc' = [pc EXCEPT ![r] = "gather"]
                        /\ tasks' = [tasks EXCEPT ![r] =
                                       [products_task |-> [NoTask EXCEPT !.state = "running"],
                                        history_task |-> [NoTask EXCEPT !.state = "running"]]]
                        /\ outcome' = [outcome EXCEPT ![r] = NoOutcome]
                   ELSE /\ fail(r, "save_user")
                        /\ tasks' = [tasks EXCEPT ![r] = NoTasks]
                /\ UNCHANGED products
    /\ UNCHANGED <<ret, purges>>
    /\ UNCHANGED <<threadVars, bootVars>>

\* the worker thread of asyncio.to_thread(self.product_repository.get_all)
read_products(r, ok) ==
    /\ tasks[r].products_task.state = "running"
    /\ tasks' = [tasks EXCEPT ![r].products_task =
                   IF ok THEN [state |-> "done", products |-> products, history |-> <<>>]
                   ELSE [state |-> "failed", products |-> {}, history |-> <<>>]]
    /\ called(r, "get_all")
    /\ UNCHANGED <<storeVars, ret, pc, req, user_message, reply, outcome, received, purges,
                   events,
                   before, disturbed>>
    /\ UNCHANGED <<threadVars, bootVars>>

\* the worker thread of asyncio.to_thread(get_recent_messages, session_id, 6)
read_history(r, ok) ==
    /\ tasks[r].history_task.state = "running"
    /\ tasks' = [tasks EXCEPT ![r].history_task =
                   IF ok
                   THEN [state |-> "done", products |-> {},
                         history |-> get_recent_messages(chat_memory,
                                                         req[r].session_id, 6)]
                   ELSE [state |-> "failed", products |-> {}, history |-> <<>>]]
    /\ called(r, "get_recent_messages")
    /\ UNCHANGED <<storeVars, ret, pc, req, user_message, reply, outcome, received, purges,
                   events,
                   before, disturbed>>
    /\ UNCHANGED <<threadVars, bootVars>>

\* variant: gather(..., return_exceptions=True): a failed read is passed on as a result
gather_returns_partial(r) ==
    /\ pc[r] = "gather"
    /\ tasks[r].products_task.state \in {"done", "failed"}
    /\ tasks[r].history_task.state \in {"done", "failed"}
    /\ pc' = [pc EXCEPT ![r] = "awaiting"]
    /\ calls' = [calls EXCEPT ![r]["generate_response"] = @ + 1]
    /\ events' = [events EXCEPT ![r] = @ \o <<"generate_invoked">>]
    /\ UNCHANGED <<storeVars, ret, req, user_message, tasks, reply, outcome, received,
                   purges, before, disturbed>>
    /\ UNCHANGED <<threadVars, bootVars>>

\* "await asyncio.gather(products_task, history_task)" returns both results;
\* the ChatContext is built and generate_response is awaited
gather_returns(r) ==
    /\ pc[r] = "gather"
    /\ tasks[r].products_task.state = "done"
    /\ tasks[r].history_task.state = "done"
    /\ pc' = [pc EXCEPT ![r] = "awaiting"]
    /\ called(r, "generate_response")
    /\ log(r, <<"generate_invoked">>)
    /\ UNCHANGED <<storeVars, ret, req, user_message, tasks, reply, outcome, received,
                   purges, before, disturbed>>
    /\ UNCHANGED <<threadVars, bootVars>>

\* "await asyncio.gather(...)" raises the first exception of a read; the
\* other read, if still running, is left to finish on its thread
gather_raises(r) ==
    /\ pc[r] = "gather"
    /\ \/ tasks[r].products_task.state = "failed"
       \/ tasks[r].history_task.state = "failed"
    /\ fail(r, "gather")
    /\ UNCHANGED <<storeVars, ret, req, user_message, tasks, reply, received, purges,
                   histVars>>
    /\ UNCHANGED <<threadVars, bootVars>>

\* variant: the user turn is deleted again when the generator raises
generate_raises_rollback(r) ==
    /\ pc[r] = "awaiting"
    /\ events' = [events EXCEPT ![r] = @ \o <<"generate_raised">>]
    /\ pc' = [pc EXCEPT ![r] = "done"]
    /\ outcome' = [outcome EXCEPT ![r] =
                     [kind |-> "ChatServiceError", stage |-> "generate", response |-> {}]]
    /\ chat_memory' = {m \in chat_memory :
                         \A u \in user_message[r] :
                            ~(m.session_id = u.session_id /\ m.timestamp = u.timestamp)}
    /\ UNCHANGED <<products, clock, appended, ret, req, user_message, tasks, reply,
                   received, purges, calls, before, disturbed>>
    /\ UNCHANGED <<threadVars, bootVars>>

\* variant: generation is tried a second time when it raises
generate_raises_retry(r) ==
    /\ pc[r] = "awaiting"
    /\ events' = [events EXCEPT ![r] = @ \o <<"generate_raised">>]
    /\ IF calls[r].generate_response < 2
       THEN /\ calls' = [calls EXCEPT ![r]["generate_response"] = @ + 1]
            /\ UNCHANGED <<pc, outcome>>
       ELSE /\ pc' = [pc EXCEPT ![r] = "done"]
            /\ outcome' = [outcome EXCEPT ![r] =
                             [kind |-> "ChatServiceError", stage |-> "generate",
                              response |-> {}]]
            /\ UNCHANGED calls
    /\ UNCHANGED <<storeVars, ret, req, user_message, tasks, reply, received, purges,
                   before, disturbed>>
    /\ UNCHANGED <<threadVars, bootVars>>

\* the generator raises
generate_raises(r) ==
    /\ pc[r] = "awaiting"
    /\ log(r, <<"generate_raised">>)
    /\ fail(r, "generate")
    /\ UNCHANGED <<storeVars, ret, req, user_message, tasks, reply, received, purges,
                   calls, before, disturbed>>
    /\ UNCHANGED <<threadVars, bootVars>>

\* ChatMessageResponseDTO(...) of step 5
ChatMessageResponseDTO(session_id, user, assistant) ==
    [session_id |-> session_id, user_message |-> user.message,
     assistant_message |-> assistant.message, timestamp |-> assistant.timestamp]

\* the generator returns assistant_text; process_message builds the assistant
\* ChatMessage, saves it and returns the response
generate_returns(r, text, how) ==
    /\ pc[r] = "awaiting"
    /\ reply' = [reply EXCEPT ![r] = text]
    /\ LET s == req[r].session_id
           m == ChatMessage(s, "assistant", text, clock + 1)
           u == CHOOSE u \in user_message[r] : TRUE
       IN  IF ~ChatMessage_post_init(s, "assistant", text)
           THEN /\ log(r, <<"generate_returned">>)
                /\ fail(r, "save_assistant")
                /\ UNCHANGED <<storeVars, calls, disturbed>>
           ELSE /\ clock' = clock + 1
                /\ chat_memory' = save_message(chat_memory, m, how)
                /\ appended' = appended_after_save(s, m, how)
                /\ disturbed' = IF how = "commit_error" THEN disturbed
                                ELSE disturbed_by(r, s)
                /\ called(r, "save_message")
                /\ log(r, IF how = "commit_error" THEN <<"generate_returned">>
                          ELSE <<"generate_returned", "assistant_append">>)
                /\ IF how = "ok"
                   THEN /\ pc' = [pc EXCEPT ![r] = "done"]
                        /\ outcome' = [outcome EXCEPT ![r] =
                              [kind |-> "ok", stage |-> "none",
                               response |-> {ChatMessageResponseDTO(s, u, m)}]]
                   ELSE fail(r, "save_assistant")
                /\ UNCHANGED products
    /\ UNCHANGED <<ret, req, user_message, tasks, received, purges, before>>
    /\ UNCHANGED <<threadVars, bootVars>>

Next ==
    \/ \E r \in Requests, s \in SessionInputs, m \in MessageInputs, how \in SaveOutcomes :
          process_chat_message(r, s, m, how)
    \/ \E r \in Requests, ok \in BOOLEAN : read_products(r, ok)
    \/ \E r \in Requests, ok \in BOOLEAN : read_history(r, ok)
    \/ \E r \in Requests : gather_returns(r)
    \/ \E r \in Requests : gather_raises(r)
    \/ \E r \in Requests, text \in Replies, how \in SaveOutcomes :
          generate_returns(r, text, how)
    \/ \E r \in Requests : generate_raises(r)
    \/ \E s \in Sessions : clear_session_history(s)

Spec == Init /\ [][Next]_vars

\* the service started on a database that holds an earlier conversation of
\* session s1: user and assistant turns in alternation, saved one after the other
earlier_row(i) ==
    [id |-> i, session_id |-> S1,
     role |-> IF i % 2 = 1 THEN "user" ELSE "assistant",
     message |-> IF i % 2 = 1 THEN <<"h", "i", " ">> ELSE <<"o", "k">>,
     timestamp |-> i]

earlier_transcript == {earlier_row(i) : i \in 1 .. EarlierRows}

InitChat ==
    /\ chat_memory = earlier_transcript
    /\ products = initial_products
    /\ clock = EarlierRows
    /\ ret = NoReturn
    /\ pc = [r \in Requests |-> "idle"]
    /\ req = [r \in Requests |-> NoReq]
    /\ user_message = [r \in Requests |-> {}]
    /\ tasks = [r \in Requests |-> [products_task |-> NoTask, history_task |-> NoTask]]
    /\ reply = [r \in Requests |-> <<>>]
    /\ outcome = [r \in Requests |-> NoOutcome]
    /\ received = 0
    /\ purges = 0
    /\ appended = [s \in Sessions |->
                     IF s = S1 THEN [i \in 1 .. EarlierRows |-> earlier_row(i)] ELSE <<>>]
    /\ events = [r \in Requests |-> <<>>]
    /\ calls = [r \in Requests |-> NoCalls]
    /\ before = [r \in Requests |-> <<>>]
    /\ disturbed = [r \in Requests |-> FALSE]
    /\ in_session = {}
    /\ product_calls = [c \in Callers |-> NoCall]
    /\ product = {}
    /\ startups = 1
    /\ seedings = 1

SpecChat == InitChat /\ [][Next]_vars

\* the same requests with a generator that also returns the empty text
NextReply ==
    \/ \E r \in Requests, s \in SessionInputs, m \in MessageInputs, how \in SaveOutcomes :
          process_chat_message(r, s, m, how)
    \/ \E r \in Requests, ok \in BOOLEAN : read_products(r, ok)
    \/ \E r \in Requests, ok \in BOOLEAN : read_history(r, ok)
    \/ \E r \in Requests : gather_returns(r)
    \/ \E r \in Requests : gather_raises(r)
    \/ \E r \in Requests, text \in Replies \cup BlankReplies, how \in SaveOutcomes :
          generate_returns(r, text, how)
    \/ \E r \in Requests : generate_raises(r)
    \/ \E s \in Sessions : clear_session_history(s)

SpecReply == Init /\ [][NextReply]_vars

\* ----------------------------------------------------------- product catalog
\* variant: the price test lets 0 through
Product_post_init_zero_price(name, price, stock) ==
    IF blank(name) THEN "name"
    ELSE IF price < 0 THEN "price"
    ELSE IF stock < 0 THEN "stock"
    ELSE "ok"

\* Product.__post_init__: "ok" when construction succeeds, otherwise the rule
\* whose ValueError is raised
Product_post_init(name, price, stock) ==
    IF blank(name) THEN "name"
    ELSE IF price <= 0 THEN "price"
    ELSE IF stock < 0 THEN "stock"
    ELSE "ok"

\* Python truthiness of an Optional[int]: "if entity.id:", "if not model.id:"
truthy(id) == id # {} /\ id # {0}

\* SQLProductRepository._model_to_entity
product_model_to_entity(model) == [model EXCEPT !.id = {model.id}]

\* the row a model is stored as
product_row(id, model) == [model EXCEPT !.id = id]

\* SQLProductRepository.get_by_id: the entity, or nothing (None)
product_get_by_id(table, product_id) ==
    {product_model_to_entity(m) : m \in {x \in table : x.id = product_id}}

\* SQLProductRepository._entity_to_model: the stored row found under the
\* entity's id with every field overwritten (persistent), or a new model that
\* the session does not know yet
product_entity_to_model(table, entity) ==
    [model |-> entity,
     persistent |-> truthy(entity.id) /\ \E m \in table : {m.id} = entity.id]

\* variant: every product is added as a new record
product_save_always_insert(table, entity) ==
    LET row == product_row(next_id(table), entity)
    IN  [table |-> table \cup {row}, returned |-> {product_model_to_entity(row)},
         raised |-> "none"]

\* variant: a new model is added to the session whatever its id
product_save_adds_new_model(table, entity) ==
    LET id == IF entity.id = {} THEN next_id(table) ELSE Max(entity.id)
        row == product_row(id, entity)
    IN  [table |-> {m \in table : m.id # id} \cup {row},
         returned |-> {product_model_to_entity(row)}, raised |-> "none"]

\* SQLProductRepository.save: the table after the call, what the call returns
\* and what it raises.  A model found in the table is updated by the commit; a
\* new model is added to the session only if its id is falsy, and the INSERT
\* takes the next id (id None) or the id given (0); a new model with a truthy
\* id is never added, the commit writes nothing and db.refresh(model) raises.
product_save(table, entity) ==
    LET em == product_entity_to_model(table, entity)
        id == IF em.model.id = {} THEN next_id(table) ELSE Max(em.model.id)
        row == product_row(id, em.model)
    IN  IF em.persistent
        THEN [table |-> {m \in table : m.id # id} \cup {row},
              returned |-> {product_model_to_entity(row)}, raised |-> "none"]
        ELSE IF ~truthy(em.model.id)
        THEN IF \E m \in table : m.id = id
             THEN [table |-> table, returned |-> {}, raised |-> "IntegrityError"]
             ELSE [table |-> table \cup {row},
                   returned |-> {product_model_to_entity(row)}, raised |-> "none"]
        ELSE [table |-> table, returned |-> {}, raised |-> "InvalidRequestError"]

\* variant: "return True" has slipped out of the if
product_delete_always_true(table, product_id) ==
    [table |-> {m \in table : m.id # product_id}, returned |-> TRUE]

\* SQLProductRepository.delete
product_delete(table, product_id) ==
    IF \E m \in table : m.id = product_id
    THEN [table |-> {m \in table : m.id # product_id}, returned |-> TRUE]
    ELSE [table |-> table, returned |-> FALSE]

\* ProductDTO: the validators accept price > 0 and stock >= 0; id_given tells
\* whether the dto was built with an id (model_dump(exclude_unset=True))
ProductDTO_valid(dto) == dto.price > 0 /\ dto.stock >= 0

ProductDTO(id_given, id, name, price, stock) ==
    [id_given |-> id_given, id |-> id, name |-> name, brand |-> <<"N", "i", "k", "e">>,
     category |-> <<"R", "u", "n", "n", "i", "n", "g">>, size |-> "42", color |-> "Negro",
     price |-> price, stock |-> stock]

\* ProductDTO.from_attributes(product), the expression every method of
\* ProductService builds its answer with: from_attributes is a key of
\* model_config (dtos.py line 56), the class ProductDTO and pydantic's BaseModel
\* define no attribute of that name, so evaluating it raises AttributeError
ProductDTO_from_attributes(entity) == [raised |-> "AttributeError", returned |-> {}]

\* how a call ends whose save ended with s: with what save raised, else with
\* what "return ProductDTO.from_attributes(saved)" raises (neither is a
\* ValueError, the only exception the service catches)
ended_after_save(s) ==
    IF s.raised # "none" THEN s.raised
    ELSE LET dto == ProductDTO_from_attributes(CHOOSE e \in s.returned : TRUE)
         IN  dto.raised

\* the ids, names and dtos the callers pass
ProductIdInputs == {1, 2, 11}
ProductDTOs ==
    {ProductDTO(FALSE, {}, <<"A">>, 100, 0), ProductDTO(FALSE, {}, <<"A">>, 200, 5),
     ProductDTO(FALSE, {}, <<" ">>, 100, 0), ProductDTO(TRUE, {2}, <<"A">>, 200, 5)}

\* Product(**product_dto.model_dump()), before validation
dto_to_entity(dto) ==
    [id |-> dto.id, name |-> dto.name, brand |-> dto.brand, category |-> dto.category,
     size |-> dto.size, color |-> dto.color, price |-> dto.price, stock |-> dto.stock]

\* "for key, value in update_data.items(): setattr(existing_product, key, value)"
apply_update(existing_product, dto) ==
    [dto_to_entity(dto) EXCEPT !.id = IF dto.id_given THEN dto.id ELSE existing_product.id]

\* a caller starts a call: callers start in order, a bounded number of calls
may_start(c) ==
    /\ product_calls[c].pc \in {"idle", "done"}
    /\ product_calls[1].started + product_calls[2].started < MaxProductCalls
    /\ c = 1 \/ product_calls[1].started > 0

started_call(c, op, product_id, dto) ==
    [NoCall EXCEPT !.op = op, !.product_id = product_id, !.dto = {dto},
                   !.started = product_calls[c].started + 1]

\* ProductService.create_product
create_product(c, dto) ==
    /\ may_start(c)
    /\ ProductDTO_valid(dto)
    /\ LET product_entity == [dto_to_entity(dto) EXCEPT !.id = {}]
           s == product_save(products, product_entity)
           call == started_call(c, "create_product", 0, dto)
       IN  IF Product_post_init(dto.name, dto.price, dto.stock) # "ok"
           THEN /\ product_calls' = [product_calls EXCEPT ![c] =
                       [call EXCEPT !.pc = "done", !.raised = "InvalidProductDataError"]]
                /\ UNCHANGED products
           ELSE /\ product_calls' = [product_calls EXCEPT ![c] =
                       [call EXCEPT !.pc = "done", !.saved = {product_entity},
                                    !.result = s.returned,
                                    !.raised = ended_after_save(s)]]
                /\ products' = s.table
    /\ UNCHANGED <<chat_memory, clock, appended, ret, reqVars, histVars, in_session, bootVars>>

\* ProductService.update_product up to "existing_product = get_by_id(product_id)"
update_product_read(c, product_id, dto) ==
    /\ may_start(c)
    /\ ProductDTO_valid(dto)
    /\ LET existing_product == product_get_by_id(products, product_id)
           call == started_call(c, "update_product", product_id, dto)
       IN  product_calls' = [product_calls EXCEPT ![c] =
               IF existing_product = {}
               THEN [call EXCEPT !.pc = "done", !.raised = "ProductNotFoundError"]
               ELSE [call EXCEPT !.pc = "update_save",
                                 !.existing_product = existing_product]]
    /\ UNCHANGED <<storeVars, ret, reqVars, histVars, in_session, bootVars>>

\* ProductService.update_product from the setattr loop on: the entity read
\* earlier takes the dto's fields, is validated again and is saved
update_product_write(c) ==
    /\ product_calls[c].pc = "update_save"
    /\ LET call == product_calls[c]
           existing_product == CHOOSE e \in call.existing_product : TRUE
           dto == CHOOSE d \in call.dto : TRUE
           entity == apply_update(existing_product, dto)
           s == product_save(products, entity)
       IN  IF Product_post_init(entity.name, entity.price, entity.stock) # "ok"
           THEN /\ product_calls' = [product_calls EXCEPT ![c] =
                       [call EXCEPT !.pc = "done", !.raised = "InvalidProductDataError"]]
                /\ UNCHANGED products
           ELSE /\ product_calls' = [product_calls EXCEPT ![c] =
                       [call EXCEPT !.pc = "done", !.saved = {entity},
                                    !.result = s.returned,
                                    !.raised = ended_after_save(s)]]
                /\ products' = s.table
    /\ UNCHANGED <<chat_memory, clock, appended, ret, reqVars, histVars, in_session, bootVars>>

\* ProductService.delete_product up to "product_to_delete = get_by_id(product_id)"
delete_product_read(c, product_id) ==
    /\ may_start(c)
    /\ LET product_to_delete == product_get_by_id(products, product_id)
           call == [started_call(c, "delete_product", product_id, {}) EXCEPT !.dto = {}]
       IN  product_calls' = [product_calls EXCEPT ![c] =
               IF product_to_delete = {}
               THEN [call EXCEPT !.pc = "done", !.raised = "ProductNotFoundError"]
               ELSE [call EXCEPT !.pc = "delete",
                                 !.existing_product = product_to_delete]]
    /\ UNCHANGED <<storeVars, ret, reqVars, histVars, in_session, bootVars>>

\* "return self.product_repository.delete(product_id)"
delete_product_write(c) ==
    /\ product_calls[c].pc = "delete"
    /\ LET call == product_calls[c]
           d == product_delete(products, call.product_id)
       IN  /\ product_calls' = [product_calls EXCEPT ![c] =
                   [call EXCEPT !.pc = "done", !.result = {d.returned}]]
           /\ products' = d.table
    /\ UNCHANGED <<chat_memory, clock, appended, ret, reqVars, histVars, in_session, bootVars>>

NextCatalog ==
    \/ \E c \in Callers, dto \in ProductDTOs : create_product(c, dto)
    \/ \E c \in Callers, id \in ProductIdInputs, dto \in ProductDTOs :
          update_product_read(c, id, dto)
    \/ \E c \in Callers : update_product_write(c)
    \/ \E c \in Callers, id \in ProductIdInputs : delete_product_read(c, id)
    \/ \E c \in Callers : delete_product_write(c)

SpecCatalog == Init /\ [][NextCatalog]_vars

\* ------------------------------------------------------------ catalog search
\* SQLProductRepository.get_all
product_get_all(table) == {product_model_to_entity(m) : m \in table}

\* SQLProductRepository.get_by_brand: ProductModel.brand == brand
product_get_by_brand(table, brand) ==
    {product_model_to_entity(m) : m \in {x \in table : x.brand = brand}}

\* SQLProductRepository.get_by_category: ProductModel.category == category
product_get_by_category(table, category) ==
    {product_model_to_entity(m) : m \in {x \in table : x.category = category}}

\* the filters dictionary: a key is present ({value}) or absent ({})
BrandInputs ==
    {<<"N", "i", "k", "e">>, <<"n", "i", "k", "e">>, <<"N", "I", "K", "E">>,
     <<"A", "d", "i", "d", "a", "s">>, <<"a", "d", "i", "d", "a", "s">>,
     <<"N", "e", "w", " ", "B", "a", "l", "a", "n", "c", "e">>,
     <<"Z", "a", "r", "a">>}
CategoryInputs ==
    {<<"R", "u", "n", "n", "i", "n", "g">>, <<"r", "u", "n", "n", "i", "n", "g">>,
     <<"C", "a", "s", "u", "a", "l">>, <<"F", "O", "R", "M", "A", "L">>,
     <<"S", "p", "o", "r", "t">>}
FilterInputs ==
    {[brand |-> b, category |-> c] :
        b \in {{}} \cup {{x} : x \in BrandInputs},
        c \in {{}} \cup {{x} : x \in CategoryInputs}}

\* variant: the brand is compared as it is written
filter_products_exact_brand(table, filters) ==
    LET all == product_get_all(table)
        by_brand == IF filters.brand = {} THEN all
                    ELSE {p \in all : \E b \in filters.brand : p.brand = b}
    IN  IF filters.category = {} THEN by_brand
        ELSE {p \in by_brand : \E c \in filters.category : lower(p.category) = lower(c)}

\* search_products up to its return statement: the local list products
filter_products(table, filters) ==
    LET all == product_get_all(table)
        by_brand == IF filters.brand = {} THEN all
                    ELSE {p \in all : \E b \in filters.brand : lower(p.brand) = lower(b)}
    IN  IF filters.category = {} THEN by_brand
        ELSE {p \in by_brand : \E c \in filters.category : lower(p.category) = lower(c)}

\* ProductService.search_products: "[ProductDTO.from_attributes(p) for p in
\* products]" evaluates the conversion once for every product that is left, so
\* the call returns (the empty list) only when no product is left
ProductService_search_products(table, filters) ==
    LET matched == filter_products(table, filters)
    IN  IF matched = {} THEN [raised |-> "none", returned |-> {}, products |-> matched]
        ELSE LET dto == ProductDTO_from_attributes(CHOOSE p \in matched : TRUE)
             IN  [raised |-> dto.raised, returned |-> dto.returned, products |-> matched]

\* one call; ret.num counts the calls of a run
search_call(op, arg, result) ==
    /\ ret.num < MaxSearchCalls
    /\ ret' = [op |-> op, session_id |-> <<>>, arg |-> arg, result |-> result,
               num |-> ret.num + 1]
    /\ UNCHANGED <<storeVars, reqVars, histVars, threadVars, bootVars>>

search_products(filters) ==
    search_call("search_products", filters,
                ProductService_search_products(products, filters))

get_by_brand(brand) ==
    search_call("get_by_brand", brand,
                [raised |-> "none", returned |-> product_get_by_brand(products, brand),
                 products |-> {}])

get_by_category(category) ==
    search_call("get_by_category", category,
                [raised |-> "none",
                 returned |-> product_get_by_category(products, category),
                 products |-> {}])

NextSearch ==
    \/ \E filters \in FilterInputs : search_products(filters)
    \/ \E brand \in BrandInputs : get_by_brand(brand)
    \/ \E category \in CategoryInputs : get_by_category(category)

SpecSearch == Init /\ [][NextSearch]_vars

\* ------------------------------------------------------ startup and seeding
\* variant: the seed is loaded whenever a seed product is missing
load_initial_data_if_incomplete(table) ==
    IF ~(initial_products \subseteq table)
    THEN [table |-> table \cup initial_products, seeded |-> TRUE]
    ELSE [table |-> table, seeded |-> FALSE]

\* load_initial_data: "if db.query(ProductModel).count() == 0:" add the seed
\* rows, which an empty table numbers from 1, and commit
load_initial_data(table) ==
    IF Cardinality(table) = 0
    THEN [table |-> initial_products, seeded |-> TRUE]
    ELSE [table |-> table, seeded |-> FALSE]

\* on_startup -> init_db: create_all leaves existing tables and their rows as
\* they are, then load_initial_data runs
on_startup ==
    /\ startups < MaxStartups
    /\ startups' = startups + 1
    /\ LET l == load_initial_data(products)
       IN  /\ products' = l.table
           /\ seedings' = IF l.seeded THEN seedings + 1 ELSE seedings
    /\ UNCHANGED <<chat_memory, clock, appended, ret, reqVars, histVars, threadVars,
                   product>>

\* catalog operations between startups, one caller at a time: a whole
\* delete_product call
delete_product_call(product_id) ==
    /\ product_get_by_id(products, product_id) # {}
    /\ products' = product_delete(products, product_id).table
    /\ UNCHANGED <<chat_memory, clock, appended, ret, reqVars, histVars, threadVars,
                   bootVars>>

\* a whole create_product call with a valid dto; ret.num counts them
create_product_call(dto) ==
    /\ ret.num < MaxCreates
    /\ ProductDTO_valid(dto)
    /\ Product_post_init(dto.name, dto.price, dto.stock) = "ok"
    /\ LET s == product_save(products, [dto_to_entity(dto) EXCEPT !.id = {}])
       IN  /\ products' = s.table
           /\ ret' = [op |-> "create_product", session_id |-> <<>>, arg |-> dto,
                      result |-> <<ended_after_save(s)>>, num |-> ret.num + 1]
    /\ UNCHANGED <<chat_memory, clock, appended, reqVars, histVars, threadVars, bootVars>>

NextSeed ==
    \/ on_startup
    \/ \E product_id \in {m.id : m \in products} : delete_product_call(product_id)
    \/ \E dto \in ProductDTOs : create_product_call(dto)

SpecSeed == Init /\ [][NextSeed]_vars

\* ------------------------------------------------------ Product construction
ProductNameInputs ==
    {<<>>, <<" ">>, <<"\t", "\n">>, <<"A">>, <<" ", "A", " ">>}

\* Product(id=None, name=..., price=..., stock=...): a run constructs one product
ProductNew(name, price, stock) ==
    /\ ret = NoReturn
    /\ ret' = [op |-> "Product", session_id |-> <<>>,
               arg |-> [name |-> name, price |-> price, stock |-> stock],
               result |-> <<Product_post_init(name, price, stock)>>, num |-> 0]
    /\ product' = IF Product_post_init(name, price, stock) = "ok"
                  THEN {[name |-> name, price |-> price, stock |-> stock]}
                  ELSE {}
    /\ UNCHANGED <<storeVars, reqVars, histVars, threadVars, startups, seedings>>

NextProduct ==
    \E name \in ProductNameInputs, price \in (0 - MaxPrice) .. MaxPrice,
       stock \in (0 - MaxStock) .. MaxStock : ProductNew(name, price, stock)

SpecProduct == Init /\ [][NextProduct]_vars

\* ------------------------------------------------- the stock of a Product
\* variant: the test against the current stock is missing
Product_reduce_stock_unchecked(stock, quantity) ==
    IF quantity <= 0 THEN [stock |-> stock, raised |-> "ValueError"]
    ELSE [stock |-> stock - quantity, raised |-> "none"]

\* Product.reduce_stock: the stock after the call and what the call raised
Product_reduce_stock(stock, quantity) ==
    IF quantity <= 0 THEN [stock |-> stock, raised |-> "ValueError"]
    ELSE IF stock < quantity THEN [stock |-> stock, raised |-> "ValueError"]
    ELSE [stock |-> stock - quantity, raised |-> "none"]

\* variant: the test of the quantity is missing
Product_increase_stock_unchecked(stock, quantity) ==
    [stock |-> stock + quantity, raised |-> "none"]

\* Product.increase_stock
Product_increase_stock(stock, quantity) ==
    IF quantity <= 0 THEN [stock |-> stock, raised |-> "ValueError"]
    ELSE [stock |-> stock + quantity, raised |-> "none"]

QuantityInputs == (0 - MaxQuantity) .. MaxQuantity

\* one call of a method on the object held in product; ret.num counts the calls
stock_call(op, quantity, after) ==
    /\ product # {}
    /\ ret.num < MaxStockCalls
    /\ product' = {[p EXCEPT !.stock = after.stock] : p \in product}
    /\ ret' = [op |-> op, session_id |-> <<>>, arg |-> quantity,
               result |-> <<after.raised>>, num |-> ret.num + 1]
    /\ UNCHANGED <<storeVars, reqVars, histVars, threadVars, startups, seedings>>

reduce_stock(quantity) ==
    \E p \in product :
        stock_call("reduce_stock", quantity, Product_reduce_stock(p.stock, quantity))

increase_stock(quantity) ==
    \E p \in product :
        stock_call("increase_stock", quantity, Product_increase_stock(p.stock, quantity))

NextStock ==
    \/ NextProduct
    \/ \E quantity \in QuantityInputs : reduce_stock(quantity)
    \/ \E quantity \in QuantityInputs : increase_stock(quantity)

SpecStock == Init /\ [][NextStock]_vars

\* ------------------------------------------- the two reads, query by query
\* get_chat_service: get_db yields one Session for the request, and both
\* repositories of the request's ChatService are built on it
db_of(r, repository) == [session_of_request |-> r]

thread(r, repository) ==
    [request |-> r, repository |-> repository, db |-> db_of(r, repository)]

\* the thread of products_task enters self.db.query(ProductModel).all()
products_query_begin(r) ==
    /\ tasks[r].products_task.state = "running"
    /\ thread(r, "product_repository") \notin in_session
    /\ in_session' = in_session \cup {thread(r, "product_repository")}
    /\ UNCHANGED <<storeVars, ret, reqVars, histVars, product_calls, bootVars>>

\* the query returns or raises, and with it get_all
products_query_end(r, ok) ==
    /\ thread(r, "product_repository") \in in_session
    /\ in_session' = in_session \ {thread(r, "product_repository")}
    /\ tasks' = [tasks EXCEPT ![r].products_task =
                   IF ok THEN [state |-> "done", products |-> products, history |-> <<>>]
                   ELSE [state |-> "failed", products |-> {}, history |-> <<>>]]
    /\ called(r, "get_all")
    /\ UNCHANGED <<storeVars, ret, pc, req, user_message, reply, outcome, received, purges,
                   events, before, disturbed, product_calls, bootVars>>

\* the thread of history_task enters self.db.query(ChatMemoryModel)...all()
history_query_begin(r) ==
    /\ tasks[r].history_task.state = "running"
    /\ thread(r, "chat_repository") \notin in_session
    /\ in_session' = in_session \cup {thread(r, "chat_repository")}
    /\ UNCHANGED <<storeVars, ret, reqVars, histVars, product_calls, bootVars>>

\* the query returns or raises, and with it get_recent_messages
history_query_end(r, ok) ==
    /\ thread(r, "chat_repository") \in in_session
    /\ in_session' = in_session \ {thread(r, "chat_repository")}
    /\ tasks' = [tasks EXCEPT ![r].history_task =
                   IF ok
                   THEN [state |-> "done", products |-> {},
                         history |-> get_recent_messages(chat_memory,
                                                         req[r].session_id, 6)]
                   ELSE [state |-> "failed", products |-> {}, history |-> <<>>]]
    /\ called(r, "get_recent_messages")
    /\ UNCHANGED <<storeVars, ret, pc, req, user_message, reply, outcome, received, purges,
                   events, before, disturbed, product_calls, bootVars>>

NextReads ==
    \/ \E r \in Requests, s \in SessionInputs, m \in MessageInputs, how \in SaveOutcomes :
          process_chat_message(r, s, m, how)
    \/ \E r \in Requests : products_query_begin(r)
    \/ \E r \in Requests, ok \in BOOLEAN : products_query_end(r, ok)
    \/ \E r \in Requests : history_query_begin(r)
    \/ \E r \in Requests, ok \in BOOLEAN : history_query_end(r, ok)
    \/ \E r \in Requests : gather_returns(r)
    \/ \E r \in Requests : gather_raises(r)
    \/ \E r \in Requests, text \in Replies, how \in SaveOutcomes :
          generate_returns(r, text, how)
    \/ \E r \in Requests : generate_raises(r)

SpecReads == Init /\ [][NextReads]_vars

\* ------------------------------------------------------------- ChatContext
\* max_messages: int = 6
DefaultMaxMessages == 6

\* Python's seq[start:]: a negative start counts from the end, and both ends
\* are clipped to the sequence
slice_from(q, start) ==
    LET n == Len(q)
        lo == IF start < 0
              THEN (IF n + start < 0 THEN 0 ELSE n + start)
              ELSE (IF start > n THEN n ELSE start)
    IN  SubSeq(q, lo + 1, n)

\* ChatContext.get_recent_messages: self.messages[-self.max_messages:]
ChatContext_get_recent_messages(messages, max_messages) ==
    slice_from(messages, 0 - max_messages)

\* ChatMessage.is_from_user
is_from_user(msg) == msg.role = "user"

Usuario == <<"U", "s", "u", "a", "r", "i", "o">>
Asistente == <<"A", "s", "i", "s", "t", "e", "n", "t", "e">>

\* f"{role_spanish}: {msg.message}"
format_line(msg) ==
    (IF is_from_user(msg) THEN Usuario ELSE Asistente) \o <<":", " ">> \o msg.message

\* variant: every line is terminated by the separator
RECURSIVE join_terminated(_, _)
join_terminated(sep, lines) ==
    IF lines = <<>> THEN <<>>
    ELSE Head(lines) \o sep \o join_terminated(sep, Tail(lines))

\* str.join
RECURSIVE join(_, _)
join(sep, lines) ==
    IF lines = <<>> THEN <<>>
    ELSE IF Len(lines) = 1 THEN Head(lines)
    ELSE Head(lines) \o sep \o join(sep, Tail(lines))

\* ChatContext.format_for_prompt
format_for_prompt(messages, max_messages) ==
    LET recent == ChatContext_get_recent_messages(messages, max_messages)
        formatted_history == [i \in 1 .. Len(recent) |-> format_line(recent[i])]
    IN  join(<<"\n">>, formatted_history)

\* the message texts, lists and windows a ChatContext is built with; a run
\* builds one context and calls one of its methods
ContextTexts == {<<"h", "i">>, <<"a", "\n", "b">>}

ContextMessage(i, role, text) == ChatMessage(S1, role, text, i)

RECURSIVE ContextLists(_)
ContextLists(n) ==
    IF n = 0 THEN {<<>>}
    ELSE LET shorter == ContextLists(n - 1)
         IN  shorter \cup
             {Append(q, ContextMessage(n, role, text)) :
                 q \in {x \in shorter : Len(x) = n - 1}, role \in Roles,
                 text \in ContextTexts}

MaxMessagesValues == (0 .. MaxWindow) \cup {DefaultMaxMessages}

\* ChatContext(messages, max_messages).get_recent_messages()
ContextRecent(messages, max_messages) ==
    /\ ret = NoReturn
    /\ ret' = [op |-> "ChatContext.get_recent_messages", session_id |-> S1,
               arg |-> [messages |-> messages, max_messages |-> max_messages],
               result |-> ChatContext_get_recent_messages(messages, max_messages),
               num |-> 0]
    /\ UNCHANGED <<storeVars, reqVars, histVars>>
    /\ UNCHANGED <<threadVars, bootVars>>

\* ChatContext(messages, max_messages).format_for_prompt()
ContextFormat(messages, max_messages) ==
    /\ ret = NoReturn
    /\ ret' = [op |-> "ChatContext.format_for_prompt", session_id |-> S1,
               arg |-> [messages |-> messages, max_messages |-> max_messages],
               result |-> format_for_prompt(messages, max_messages),
               num |-> 0]
    /\ UNCHANGED <<storeVars, reqVars, histVars>>
    /\ UNCHANGED <<threadVars, bootVars>>

NextContext ==
    \/ \E q \in ContextLists(MaxContextLen), k \in MaxMessagesValues : ContextRecent(q, k)
    \/ \E q \in ContextLists(MaxContextLen), k \in MaxMessagesValues : ContextFormat(q, k)

SpecContext == Init /\ [][NextContext]_vars

\* ------------------------------------------------------ response generator
\* "Lo siento, no pude generar una respuesta en este momento. Por favor,
\* intenta de nuevo."
Fallback ==
    <<"L", "o", " ", "s", "i", "e", "n", "t", "o", ",", " ", "n", "o", " ",
      "p", "u", "d", "e", " ", "g", "e", "n", "e", "r", "a", "r", " ", "u",
      "n", "a", " ", "r", "e", "s", "p", "u", "e", "s", "t", "a", " ", "e",
      "n", " ", "e", "s", "t", "e", " ", "m", "o", "m", "e", "n", "t", "o",
      ".", " ", "P", "o", "r", " ", "f", "a", "v", "o", "r", ",", " ", "i",
      "n", "t", "e", "n", "t", "a", " ", "d", "e", " ", "n", "u", "e", "v",
      "o", ".">>

RECURSIVE concat(_)
concat(parts) ==
    IF parts = <<>> THEN <<>> ELSE Head(parts) \o concat(Tail(parts))

\* what the provider does with one prompt: generate_content_async raises
\* ("call"), or it returns a response with a list of text parts whose text
\* accessor raises ("text") or returns the parts' text
PartTexts == {<<>>, <<" ">>, <<"o", "k">>}

RECURSIVE PartLists(_)
PartLists(n) ==
    IF n = 0 THEN {<<>>}
    ELSE LET shorter == PartLists(n - 1)
         IN  shorter \cup {Append(q, x) : q \in {y \in shorter : Len(y) = n - 1},
                                           x \in PartTexts}

ProviderResponses ==
    {[raises |-> "call", parts |-> <<>>]} \cup
    {[raises |-> e, parts |-> q] : e \in {"none", "text"}, q \in PartLists(MaxParts)}

\* GeminiService.generate_response from the provider's answer on: what it
\* raises and the text it returns
GeminiService_generate_response(response) ==
    IF response.raises = "call" THEN [raised |-> "ChatServiceError", text |-> <<>>]
    ELSE IF response.parts = <<>> THEN [raised |-> "none", text |-> Fallback]
    ELSE IF response.raises = "text" THEN [raised |-> "ChatServiceError", text |-> <<>>]
    ELSE [raised |-> "none", text |-> concat(response.parts)]

\* generate_response(user_message, products, context): the prompt holds the
\* catalog lines, context.format_for_prompt() and the user's message; a run
\* makes one call
generate_response(message, context, response) ==
    /\ ret = NoReturn
    /\ ret' = [op |-> "generate_response", session_id |-> S1,
               arg |-> [user_message |-> message,
                        conversation_history |->
                            format_for_prompt(context, DefaultMaxMessages),
                        response |-> response],
               result |-> GeminiService_generate_response(response),
               num |-> 0]
    /\ UNCHANGED <<storeVars, reqVars, histVars, threadVars, bootVars>>

NextGenerator ==
    \E message \in {m \in MessageInputs : ~blank(m)},
       context \in ContextLists(MaxContextLen),
       response \in ProviderResponses :
        generate_response(message, context, response)

SpecGenerator == Init /\ [][NextGenerator]_vars

\* ------------------------------------------------------------- properties
has(r, e) == \E i \in DOMAIN events[r] : events[r][i] = e

Min(a, b) == IF a < b THEN a ELSE b

\* the row of the user turn of the slot's request is in the table
user_turn_stored(r) ==
    \E m \in chat_memory, u \in user_message[r] :
        m.session_id = u.session_id /\ m.role = "user" /\ m.timestamp = u.timestamp

\* C1: within one request the user turn is appended before the generator is
\* invoked, the generator has returned before the assistant turn is appended,
\* and the assistant turn is never appended before or without a completed
\* generator call.
C1_FixedOrder ==
    \A r \in Requests :
        LET e == events[r]
        IN  /\ \A i, j \in DOMAIN e : e[i] = e[j] => i = j
            /\ \A i \in DOMAIN e :
                  e[i] = "generate_invoked" =>
                     \E j \in 1 .. i - 1 : e[j] = "user_append"
            /\ \A i \in DOMAIN e :
                  e[i] \in {"generate_returned", "generate_raised"} =>
                     \E j \in 1 .. i - 1 : e[j] = "generate_invoked"
            /\ \A i \in DOMAIN e :
                  e[i] = "assistant_append" =>
                     /\ \E j \in 1 .. i - 1 : e[j] = "generate_returned"
                     /\ ~has(r, "generate_raised")

C1_Witness ==
    \E r \in Requests :
        events[r] = <<"user_append", "generate_invoked", "generate_returned",
                      "assistant_append">>

\* C2: the step in which the generator raises ends process_message with a
\* ChatServiceError, removes nothing from the table (the user turn of the
\* request is still stored if it was) and appends no assistant turn.
C2_GenerationFailure ==
    [][\A r \in Requests :
          (pc[r] = "awaiting" /\ pc'[r] = "done" /\ outcome'[r].stage = "generate") =>
             /\ outcome'[r].kind = "ChatServiceError"
             /\ outcome'[r].response = {}
             /\ chat_memory' = chat_memory
             /\ (user_turn_stored(r) => user_turn_stored(r)')
             /\ \A i \in DOMAIN events'[r] : events'[r][i] # "assistant_append"]_vars

C2_Witness ==
    \E r \in Requests :
        /\ outcome[r].stage = "generate"
        /\ outcome[r].kind = "ChatServiceError"
        /\ user_turn_stored(r)
        /\ ~has(r, "assistant_append")

\* C3: when process_message returns successfully and nothing else changed the
\* session's transcript while it ran, the transcript is the one found on
\* entry followed by exactly two rows, the user turn with the request text and
\* the assistant turn with the generated text, and the response carries the
\* session id and both texts.
C3_SuccessAddsTwoTurns ==
    [][\A r \in Requests :
          (pc[r] = "awaiting" /\ pc'[r] = "done" /\ outcome'[r].kind = "ok"
             /\ ~disturbed'[r]) =>
             LET s == req[r].session_id
                 h == get_session_history(chat_memory', s, {})
                 n == Len(before[r])
             IN  /\ Len(h) = n + 2
                 /\ SubSeq(h, 1, n) = before[r]
                 /\ h[n + 1].role = "user"
                 /\ h[n + 1].message = req[r].message
                 /\ h[n + 2].role = "assistant"
                 /\ h[n + 2].message = reply'[r]
                 /\ outcome'[r].response =
                       {[session_id |-> s, user_message |-> req[r].message,
                         assistant_message |-> reply'[r],
                         timestamp |-> h[n + 2].timestamp]}]_vars

C3_Witness ==
    \E r \in Requests :
        /\ outcome[r].kind = "ok"
        /\ ~disturbed[r]
        /\ before[r] # <<>>
        /\ Len(get_session_history(chat_memory, req[r].session_id, {}))
              = Len(before[r]) + 2

\* C4: the generator is invoked only after both reads have finished, and a
\* request one of whose reads failed never invokes the generator, never
\* appends an assistant turn and can only end with a ChatServiceError.
C4_ReadsBeforeGenerate ==
    \A r \in Requests :
        /\ has(r, "generate_invoked") =>
              /\ tasks[r].products_task.state = "done"
              /\ tasks[r].history_task.state = "done"
        /\ ("failed" \in {tasks[r].products_task.state, tasks[r].history_task.state}) =>
              /\ pc[r] \in {"gather", "done"}
              /\ calls[r].generate_response = 0
              /\ ~has(r, "generate_invoked")
              /\ ~has(r, "assistant_append")
              /\ outcome[r].kind \in {"none", "ChatServiceError"}
              /\ pc[r] = "done" => outcome[r].kind = "ChatServiceError"

C4_Witness ==
    \E r \in Requests :
        /\ pc[r] = "done"
        /\ outcome[r].stage = "gather"
        /\ tasks[r].history_task.state = "failed"
        /\ tasks[r].products_task.state = "done"

\* C5 (as claimed): a request that failed while appending its user turn has
\* started no read, has not invoked the generator and has left no row of its
\* own in the table.
C5_FailedAppendLeavesNothing ==
    \A r \in Requests :
        outcome[r].stage = "save_user" =>
           /\ tasks[r].products_task.state = "idle"
           /\ tasks[r].history_task.state = "idle"
           /\ calls[r].generate_response = 0
           /\ ~user_turn_stored(r)

\* C6 (as claimed): failures at different stages reach the caller as
\* different error kinds; in particular a persistence failure and a
\* generation failure differ in kind.
C6_DistinctKindPerStage ==
    \A r, q \in Requests :
        (outcome[r].stage \in {"save_user", "gather"} /\ outcome[q].stage = "generate") =>
           outcome[r].kind # outcome[q].kind

\* C6 (amended): every failure inside process_message, whatever its stage,
\* reaches the caller as ChatServiceError; only the rejection of the request
\* body by the DTO validator is of another kind.
C6_OneKindInsideProcessMessage ==
    \A r \in Requests :
        /\ outcome[r].stage = "validation" <=> outcome[r].kind = "ValidationError"
        /\ outcome[r].stage \in {"save_user", "gather", "generate", "save_assistant"}
              <=> outcome[r].kind = "ChatServiceError"
        /\ outcome[r].stage = "none" <=> outcome[r].kind \in {"none", "ok"}

C6_Witness ==
    \E r, q \in Requests :
        /\ outcome[r].stage = "save_user"
        /\ outcome[q].stage = "generate"
        /\ outcome[r].kind = outcome[q].kind

\* C7: a request invokes the generator at most once and makes each of its
\* store calls at most once, failed or not.
C7_NoRetry ==
    \A r \in Requests :
        /\ calls[r].generate_response <= 1
        /\ calls[r].get_all <= 1
        /\ calls[r].get_recent_messages <= 1
        /\ calls[r].save_message <= (IF has(r, "generate_returned") THEN 2 ELSE 1)
        /\ \A i, j \in DOMAIN events[r] : events[r][i] = events[r][j] => i = j

C7_Witness ==
    \E r \in Requests :
        /\ outcome[r].stage = "generate"
        /\ calls[r].generate_response = 1

\* C8: a request whose session_id or message is blank is answered with a
\* validation error, and no store call and no generator call is made for it.
C8_BlankRejectedFirst ==
    \A r \in Requests :
        (pc[r] # "idle" /\ (blank(req[r].session_id) \/ blank(req[r].message))) =>
           /\ pc[r] = "done"
           /\ outcome[r].kind = "ValidationError"
           /\ calls[r] = NoCalls
           /\ events[r] = <<>>
           /\ tasks[r] = NoTasks

C8_Witness ==
    \E r \in Requests :
        /\ pc[r] = "done"
        /\ req[r].session_id # <<>>
        /\ blank(req[r].session_id)
        /\ outcome[r].kind = "ValidationError"
        /\ chat_memory = {}

\* C9: get_recent_messages(session_id, count) with count >= 1 returns the last
\* min(count, n) rows of the session's n rows in the order they were appended,
\* oldest first.
C9_RecentWindow ==
    ret.op = "get_recent_messages" =>
        LET h == appended[ret.session_id]
            n == Len(h)
            k == Min(Max(ret.arg), n)
        IN  /\ Len(ret.result) <= Max(ret.arg)
            /\ \A i \in DOMAIN ret.result : ret.result[i].session_id = ret.session_id
            /\ ret.result = SubSeq(h, n - k + 1, n)

C9_Witness ==
    /\ ret.op = "get_recent_messages"
    /\ Max(ret.arg) >= 2
    /\ Len(appended[ret.session_id]) > Max(ret.arg)
    /\ \E m \in chat_memory : m.session_id # ret.session_id

\* C10 (as claimed): get_session_history returns the session's rows oldest
\* first; with a limit it returns the earliest min(limit, n) of them, so at
\* most limit rows; a session without rows yields the empty sequence.
C10_HistoryLimit ==
    ret.op = "get_session_history" =>
        LET h == appended[ret.session_id]
            n == Len(h)
        IN  IF ret.arg = {}
            THEN ret.result = h
            ELSE /\ Len(ret.result) <= Max(ret.arg)
                 /\ ret.result = SubSeq(h, 1, Min(Max(ret.arg), n))

\* C11: a purge removes exactly the rows of its session and returns how many
\* they were; afterwards the session's history is empty, and purging again (or
\* purging a session without rows) returns 0 and leaves the table as it is.
C11_PurgeIdempotent ==
    [][ret'.op = "delete_session_history" =>
          LET s == ret'.session_id
              again == delete_session_history(chat_memory', s)
          IN  /\ ret'.num = Cardinality(filter_session(chat_memory, s))
              /\ chat_memory' = chat_memory \ filter_session(chat_memory, s)
              /\ get_session_history(chat_memory', s, {}) = <<>>
              /\ filter_session(chat_memory, s) = {} =>
                    ret'.num = 0 /\ chat_memory' = chat_memory
              /\ again.num_deleted = 0
              /\ again.table = chat_memory']_vars

C11_Witness ==
    /\ ret.op = "delete_session_history"
    /\ ret.num >= 2
    /\ get_session_history(chat_memory, ret.session_id, {}) = <<>>
    /\ \E m \in chat_memory : m.session_id # ret.session_id

\* C12: a save_message call that returns gives back the stored row, with an
\* id no other stored row has, and every row saved since the session's last
\* purge is in the session's full history.
C12_SaveNeverDrops ==
    /\ \A m1, m2 \in chat_memory : m1.id = m2.id => m1 = m2
    /\ \A s \in Sessions :
          LET h == get_session_history(chat_memory, s, {})
          IN  \A i \in DOMAIN appended[s] : \E j \in DOMAIN h : h[j] = appended[s][i]
    /\ (ret.op = "save_message" /\ ret.result # <<>>) =>
          LET m == ret.result[1]
              h == get_session_history(chat_memory, ret.session_id, {})
          IN  /\ m.id \in Nat \ {0}
              /\ m.session_id = ret.session_id
              /\ m \in chat_memory
              /\ Cardinality({x \in chat_memory : x.id = m.id}) = 1
              /\ h # <<>> /\ h[Len(h)] = m

C12_Witness ==
    /\ ret.op = "save_message"
    /\ ret.result # <<>>
    /\ Len(appended[ret.session_id]) >= 2
    /\ ret.result[1].id < Cardinality(chat_memory) + 2
    /\ \E m \in chat_memory : m.id > Cardinality(chat_memory)

\* C13 (as claimed): for every message list and every max_messages,
\* ChatContext.get_recent_messages returns the last min(max_messages, n)
\* elements of the list in their order, so never more than max_messages.
C13_RecentSuffix ==
    ret.op = "ChatContext.get_recent_messages" =>
        LET q == ret.arg.messages
            n == Len(q)
            k == Min(ret.arg.max_messages, n)
        IN  /\ Len(ret.result) <= ret.arg.max_messages
            /\ ret.result = SubSeq(q, n - k + 1, n)

\* where the i-th line starts in the formatted text (0-based offset)
RECURSIVE line_start(_, _)
line_start(w, i) ==
    IF i = 1 THEN 0
    ELSE line_start(w, i - 1)
            + Len(IF w[i - 1].role = "user" THEN Usuario ELSE Asistente) + 2
            + Len(w[i - 1].message) + 1

\* C14: format_for_prompt yields, for each message of the recent window in
\* window order, the label Usuario (user) or Asistente (assistant), ': ' and
\* the message text; consecutive entries are separated by one newline, nothing
\* follows the last entry, and an empty context yields the empty string.
C14_FormatForPrompt ==
    ret.op = "ChatContext.format_for_prompt" =>
        LET w == ChatContext_get_recent_messages(ret.arg.messages, ret.arg.max_messages)
            out == ret.result
            label(i) == IF w[i].role = "user" THEN Usuario ELSE Asistente
            len(i) == Len(label(i)) + 2 + Len(w[i].message)
        IN  /\ ret.arg.messages = <<>> => out = <<>>
            /\ w = <<>> => out = <<>>
            /\ w # <<>> => Len(out) = line_start(w, Len(w)) + len(Len(w))
            /\ \A i \in DOMAIN w :
                  /\ SubSeq(out, line_start(w, i) + 1, line_start(w, i) + len(i))
                        = label(i) \o <<":", " ">> \o w[i].message
                  /\ i > 1 => out[line_start(w, i)] = "\n"

C14_Witness ==
    /\ ret.op = "ChatContext.format_for_prompt"
    /\ Len(ret.arg.messages) > ret.arg.max_messages
    /\ ret.arg.max_messages >= 2
    /\ \E i, j \in DOMAIN ret.arg.messages :
          /\ i > Len(ret.arg.messages) - ret.arg.max_messages
          /\ j > Len(ret.arg.messages) - ret.arg.max_messages
          /\ ret.arg.messages[i].role = "user"
          /\ ret.arg.messages[j].role = "assistant"
    /\ ret.result # <<>>

\* C15: requests on one session are not serialized.  A valid request is
\* never held back by a request already running on its session: in the step
\* that receives it, its user turn is appended at the end of the session's
\* transcript and its reads are started (unless the save itself fails), so
\* the appends of two running requests can interleave.
C15_AppendsNotSerialized ==
    [][\A r \in Requests :
          ( /\ received' = received + 1
            /\ free(r)
            /\ \A q \in Requests : q < r => ~free(q)
            /\ ChatMessageRequestDTO_valid(req'[r].session_id, req'[r].message) ) =>
             \/ outcome'[r].stage = "save_user"
             \/ LET s == req'[r].session_id
                    h == appended'[s]
                IN  /\ pc'[r] = "gather"
                    /\ Len(h) = Len(appended[s]) + 1
                    /\ SubSeq(h, 1, Len(h) - 1) = appended[s]
                    /\ h[Len(h)].role = "user"
                    /\ h[Len(h)].message = req'[r].message
                    /\ h[Len(h)] \in chat_memory']_vars

\* user turn of one request, user turn of the other, then the two assistant turns
C15_Witness ==
    \E s \in Sessions :
        LET h == appended[s]
        IN  /\ req[1].session_id = s /\ req[2].session_id = s
            /\ outcome[1].kind = "ok" /\ outcome[2].kind = "ok"
            /\ Len(h) = 4
            /\ h = get_session_history(chat_memory, s, {})
            /\ h[1].role = "user" /\ h[2].role = "user"
            /\ h[3].role = "assistant" /\ h[4].role = "assistant"
            /\ \A r \in Requests : \E u \in user_message[r], i \in 1 .. 2 :
                  h[i].timestamp = u.timestamp

\* C16 (as claimed): the two reads of a request share no mutable state: no
\* two worker threads are ever executing a query on the same Session object.
C16_ReadsShareNoState ==
    \A t1, t2 \in in_session : t1 # t2 => t1.db # t2.db

\* two update_product calls on one id have run read, read, write, write: both
\* read the same version of the record, both saved a valid entity, and the
\* stored record is not what one of them wrote
lost_update(a, b) ==
    /\ a.op = "update_product" /\ b.op = "update_product"
    /\ a.pc = "done" /\ b.pc = "done"
    /\ a.product_id = b.product_id
    /\ a.existing_product = b.existing_product
    /\ a.result # {} /\ b.result # {}
    /\ a.saved # b.saved
    /\ \E e \in a.saved \cup b.saved :
          /\ e.id = {a.product_id}
          /\ product_get_by_id(products, a.product_id) # {e}

\* C17: update_product is subject to a lost-update race: in the interleaving
\* in which two concurrent calls on one product id both read the record and
\* then both write it back, both calls report success while the stored record
\* does not reflect one of the two updates.
C17_LostUpdateReportsSuccess ==
    lost_update(product_calls[1], product_calls[2]) =>
        /\ product_calls[1].raised = "none"
        /\ product_calls[2].raised = "none"

\* the race itself: the interleaving is reached
C17_LostUpdate == lost_update(product_calls[1], product_calls[2])

\* a save call is made in this step by caller c
saves_in_step(c) ==
    /\ product_calls'[c].pc = "done"
    /\ product_calls'[c].saved # {}
    /\ \/ product_calls[c].pc = "update_save"
       \/ product_calls'[c].started = product_calls[c].started + 1

C19_Delete ==
    [][\A c \in Callers :
          LET call == product_calls'[c]
              id == call.product_id
              existed == \E m \in products : m.id = id
          IN  /\ (product_calls[c].pc = "delete" /\ call.pc = "done") =>
                    /\ call.raised = "none"
                    /\ call.result = {existed}
                    /\ products' = {m \in products : m.id # id}
                    /\ existed => Cardinality(products') = Cardinality(products) - 1
                    /\ ~existed => products' = products
              /\ (call.op = "delete_product"
                    /\ call.started = product_calls[c].started + 1) =>
                    /\ products' = products
                    /\ call.result = {}
                    /\ IF existed
                       THEN call.pc = "delete" /\ call.raised = "none"
                       ELSE call.pc = "done" /\ call.raised = "ProductNotFoundError"]_vars

C19_Witness ==
    \E c, d \in Callers :
        /\ product_calls[c].op = "delete_product"
        /\ product_calls[c].result = {TRUE}
        /\ product_get_by_id(products, product_calls[c].product_id) = {}
        /\ Cardinality(products) = Cardinality(initial_products) - 1
        /\ product_calls[d].op = "delete_product"
        /\ product_calls[d].raised = "ProductNotFoundError"

\* a delete_product call that found its record and then lost it to another call
C19_LateDelete ==
    \E c \in Callers :
        /\ product_calls[c].op = "delete_product"
        /\ product_calls[c].result = {FALSE}

C29_StockNeverNegative ==
    \A p \in product : p.stock >= 0

C29_Witness ==
    /\ ret.op = "increase_stock"
    /\ ret.result = <<"ValueError">>
    /\ ret.arg < 0
    /\ ret.num = MaxStockCalls
    /\ \E p \in product : p.stock = 0

\* C22: the response generator has two outcomes only: a provider-side error
\* surfaces as ChatServiceError, and a successful but empty provider reply
\* yields the fixed fallback string, so a returned reply is never empty text.
C22_GeneratorOutcomes ==
    ret.op = "generate_response" =>
        LET response == ret.arg.response
            result == ret.result
        IN  /\ response.raises # "none" /\ ~(response.raises = "text" /\ response.parts = <<>>)
                => result.raised = "ChatServiceError"
            /\ response.raises = "none" /\ concat(response.parts) = <<>>
                => result = [raised |-> "none", text |-> Fallback]
            /\ result.raised = "none" => result.text # <<>>

\* the products of the catalog that a filters dictionary asks for
asked_for(filters) ==
    {m \in products :
        /\ \A b \in filters.brand : lower(m.brand) = lower(b)
        /\ \A c \in filters.category : lower(m.category) = lower(c)}

\* C23: search_products returns exactly the catalog products that match every
\* filter given (brand and category compared ignoring letter case, both
\* filters intersected, no filter giving the whole catalog); the store's
\* get_by_brand and get_by_category match the stored value exactly.
C23_SearchProducts ==
    /\ ret.op = "search_products" =>
          /\ ret.result.raised = "none"
          /\ {d.id : d \in ret.result.returned} = {{m.id} : m \in asked_for(ret.arg)}
    /\ ret.op = "get_by_brand" =>
          ret.result.returned =
              {product_model_to_entity(m) : m \in {x \in products : x.brand = ret.arg}}
    /\ ret.op = "get_by_category" =>
          ret.result.returned =
              {product_model_to_entity(m) : m \in {x \in products : x.category = ret.arg}}

\* what does hold: the list search_products has built when it reaches its
\* return statement is the list asked for, and the store's lookups are exact
C23_FilteredList ==
    /\ ret.op = "search_products" =>
          {p.id : p \in ret.result.products} = {{m.id} : m \in asked_for(ret.arg)}
    /\ ret.op = "get_by_brand" =>
          \A m \in products : (product_model_to_entity(m) \in ret.result.returned)
                                  <=> m.brand = ret.arg

\* C24 as stated: the catalog is seeded one time only; across any sequence of
\* startups and catalog operations load_initial_data inserts the seed
\* products at most once, and a startup that finds products inserts nothing.
C24_SeededAtMostOnce == seedings <= 1

\* C24 amended: load_initial_data inserts the seed products whenever a startup
\* finds the products table empty (the first time, and again after every
\* product has been deleted), the table then holding the ten seed products; a
\* startup that finds a product in the table inserts nothing; catalog
\* operations never insert the seed.
C24_SeededWhenEmpty ==
    [][/\ startups' = startups + 1 =>
           IF products = {}
           THEN /\ seedings' = seedings + 1
                /\ Cardinality(products') = 10
                /\ products' = initial_products
           ELSE /\ seedings' = seedings
                /\ products' = products
       /\ startups' = startups => seedings' = seedings]_vars

C24_Witness ==
    /\ startups = 2
    /\ seedings = 2
    /\ ret.op = "create_product"
    /\ products = initial_products

\* C25: update_product(product_id, dto) changes no stored record other than
\* the one whose identity is product_id, for every dto, also one whose own id
\* field is set to another product's identity: the step in which the call
\* writes leaves every other record as it was and adds none.
C25_UpdateTouchesOnlyItsRecord ==
    [][\A c \in Callers :
          (product_calls[c].pc = "update_save" /\ product_calls'[c].pc = "done") =>
             LET id == product_calls[c].product_id
             IN  {m \in products' : m.id # id} = {m \in products : m.id # id}]_vars

\* the rows of a session with a given role
turns(s, role) == {m \in chat_memory : m.session_id = s /\ m.role = role}

C27_ContextOfRequest ==
    \A r \in Requests :
        has(r, "generate_invoked") =>
            LET h == tasks[r].history_task.history
            IN  /\ Len(h) <= 6
                /\ \A i \in DOMAIN h : h[i].session_id = req[r].session_id
                /\ \A i, j \in DOMAIN h : i < j => h[i].timestamp < h[j].timestamp
                /\ ChatContext_get_recent_messages(h, DefaultMaxMessages) = h
                /\ ~disturbed[r] =>
                      /\ h # <<>>
                      /\ \A u \in user_message[r] :
                            /\ h[Len(h)].role = "user"
                            /\ h[Len(h)].message = u.message
                            /\ h[Len(h)].timestamp = u.timestamp

\* the session held more than 6 messages: the context is the latest 6, ending
\* with the user turn of the request
C27_Witness ==
    \E r \in Requests :
        /\ pc[r] = "awaiting"
        /\ ~disturbed[r]
        /\ Len(tasks[r].history_task.history) = 6
        /\ Cardinality(filter_session(chat_memory, req[r].session_id)) > 6
        /\ tasks[r].history_task.history[6].message = req[r].message

\* C28: the step in which the response generator returns empty or
\* whitespace-only text ends process_message with a ChatServiceError: no
\* assistant turn is appended, the table is left as it was, and the user turn
\* of the request is still stored if it was.
C28_BlankReplyFails ==
    [][\A r \in Requests :
          (/\ pc[r] = "awaiting"
           /\ ~has(r, "generate_returned")
           /\ has(r, "generate_returned")'
           /\ blank(reply'[r])) =>
             /\ pc'[r] = "done"
             /\ outcome'[r].kind = "ChatServiceError"
             /\ outcome'[r].response = {}
             /\ chat_memory' = chat_memory
             /\ filter_session(chat_memory', req[r].session_id) =
                  filter_session(chat_memory, req[r].session_id)
             /\ (user_turn_stored(r) => user_turn_stored(r)')
             /\ ~(has(r, "assistant_append"))']_vars

\* the generator returned a blank text, once spaces and once the empty text
C28_Witness ==
    /\ \E r \in Requests :
          /\ pc[r] = "done"
          /\ has(r, "generate_returned")
          /\ reply[r] = <<" ">>
          /\ outcome[r].kind = "ChatServiceError"
          /\ user_turn_stored(r)
          /\ ~has(r, "assistant_append")
    /\ \E r \in Requests :
          /\ pc[r] = "done"
          /\ has(r, "generate_returned")
          /\ reply[r] = <<>>
          /\ outcome[r].kind = "ChatServiceError"
          /\ user_turn_stored(r)

====
